---- MODULE Spec2Model ----
(***************************************************************************)
(* Car-rental booking API (app/services.py, app/routes.py).                *)
(*                                                                         *)
(* Strings that the code only stores or compares for equality are TLA+     *)
(* strings.  A date string is the tuple of the numeric fields that         *)
(* "%Y-%m-%d" splits it into (<<2024, 12, 1>> is "2024-12-01"); a car name *)
(* is the tuple of its characters, because the code lower-cases it.  An    *)
(* Optional[str] is <<>> (None) or the one-element tuple <<s>>.            *)
(*                                                                         *)
(* Spec     : requests are served one at a time; one action per handler.   *)
(* SpecConc : post_booking requests of several workers interleave at the   *)
(*            load / check / save steps of create_booking.                 *)
(***************************************************************************)
EXTENDS Integers, Sequences, FiniteSets, TLC

\* ------------------------------------------------------------ bounds
MaxBookings == 2      \* longest booking list the model lets the file grow to
MaxCalls    == 1      \* requests each concurrent worker issues in SpecConc

\* ------------------------------------------------------------ values
None == <<>>
Some(s) == <<s>>

Return(v) == [kind |-> "return", value |-> v]
ValueError(msg) == [kind |-> "raise", exc |-> "ValueError", msg |-> msg]
HTTPException(status_code, detail) ==
    [kind |-> "raise", exc |-> "HTTPException", status_code |-> status_code, detail |-> detail]

SEAT_Ibiza == <<"S", "E", "A", "T", " ", "I", "b", "i", "z", "a">>
Volkswagen_Polo ==
    <<"V", "o", "l", "k", "s", "w", "a", "g", "e", "n", " ", "P", "o", "l", "o">>

\* the catalog of the fixtures: cars.json
CarsFile == [cars |-> << [id |-> 1, name |-> SEAT_Ibiza], [id |-> 2, name |-> Volkswagen_Polo] >>]

VARIABLES
    cars_json,       \* content of db/cars.json
    bookings_json,   \* content of db/bookings.json: the list under "bookings"
    last,            \* Spec: the request being answered, with its outcome
    pc,              \* SpecConc: position of each worker inside create_booking
    req,             \* SpecConc: the request each worker is serving
    bookings,        \* SpecConc: each worker's local list `bookings`
    ret,             \* SpecConc: outcome of each worker's last request
    calls            \* SpecConc: requests each worker has issued

vars == <<cars_json, bookings_json, last, pc, req, bookings, ret, calls>>

\* ------------------------------------------------------------ datetime
IsLeap(y) == (y % 4 = 0 /\ y % 100 # 0) \/ y % 400 = 0

DaysInMonth(y, m) ==
    IF m = 2 THEN (IF IsLeap(y) THEN 29 ELSE 28)
    ELSE IF m \in {4, 6, 9, 11} THEN 30 ELSE 31

\* datetime.strptime(s, "%Y-%m-%d") succeeds
strptime_ok(s) ==
    /\ Len(s) = 3
    /\ s[1] \in 1..9999
    /\ s[2] \in 1..12
    /\ s[3] \in 1..DaysInMonth(s[1], s[2])

\* the datetime it yields (midnight of that day)
strptime(s) == [year |-> s[1], month |-> s[2], day |-> s[3]]

strptime_error == ValueError("time data does not match format '%Y-%m-%d'")

\* datetime.__lt__ : year, then month, then day
dt_lt(a, b) ==
    \/ a.year < b.year
    \/ a.year = b.year /\ a.month < b.month
    \/ a.year = b.year /\ a.month = b.month /\ a.day < b.day

dt_gt(a, b) == dt_lt(b, a)
dt_le(a, b) == ~dt_lt(b, a)
dt_ge(a, b) == ~dt_lt(a, b)

\* ------------------------------------------------------------ str.lower
lower_char(c) ==
    CASE c = "S" -> "s" [] c = "E" -> "e" [] c = "A" -> "a" [] c = "T" -> "t"
      [] c = "I" -> "i" [] c = "V" -> "v" [] c = "P" -> "p" [] c = "O" -> "o"
      [] c = "L" -> "l" [] c = "B" -> "b" [] c = "Z" -> "z"
      [] OTHER -> c

lower(s) == [i \in 1..Len(s) |-> lower_char(s[i])]

\* ------------------------------------------------------------ create_booking
\* mutant: the search starts one entry too late
next_car_from_second(cars, car_id, i) ==
    IF \E k \in (i + 1)..Len(cars) : cars[k].id = car_id
    THEN Some(cars[CHOOSE k \in (i + 1)..Len(cars) :
                       cars[k].id = car_id /\ \A j \in (i + 1)..(k - 1) : cars[j].id # car_id])
    ELSE None

\* mutant: the first car of the catalog stands in for a car that is not found
next_car_default(cars, car_id, i) ==
    IF \E k \in i..Len(cars) : cars[k].id = car_id
    THEN Some(cars[CHOOSE k \in i..Len(cars) :
                       cars[k].id = car_id /\ \A j \in i..(k - 1) : cars[j].id # car_id])
    ELSE Some(cars[1])

\* next((car for car in cars if car["id"] == car_id), None)
RECURSIVE next_car(_, _, _)
next_car(cars, car_id, i) ==
    IF i > Len(cars) THEN None
    ELSE IF cars[i].id = car_id THEN Some(cars[i])
    ELSE next_car(cars, car_id, i + 1)

\* mutant: a booking picked up later than 08:00 does not block the day it starts
ends_before_or_late_pickup(end_date_obj, booking) ==
    \/ dt_lt(end_date_obj, strptime(booking.startDate))
    \/ (end_date_obj = strptime(booking.startDate) /\ booking.pickupTime # "08:00")

\* mutant: `<=` for `<`, a request ending on the day a booking starts passes
ends_before_or_on(end_date_obj, booking) == dt_le(end_date_obj, strptime(booking.startDate))

\* end_date_obj < datetime.strptime(booking["startDate"], ...)
ends_before(end_date_obj, booking) == dt_lt(end_date_obj, strptime(booking.startDate))

\* mutant: `>=` for `>`, a request starting on the day a booking ends passes
starts_after_or_on(start_date_obj, booking) == dt_ge(start_date_obj, strptime(booking.endDate))

\* start_date_obj > datetime.strptime(booking["endDate"], ...)
starts_after(start_date_obj, booking) == dt_gt(start_date_obj, strptime(booking.endDate))

\* any(booking["car_id"] == car_id and not (... or ...) for booking in bookings),
\* evaluated booking by booking with Python's short-circuit order
RECURSIVE any_overlap(_, _, _, _, _)
any_overlap(bks, i, car_id, start_date_obj, end_date_obj) ==
    IF i > Len(bks) THEN Return(FALSE)
    ELSE LET booking == bks[i]
             rest == any_overlap(bks, i + 1, car_id, start_date_obj, end_date_obj)
         IN IF booking.car_id # car_id THEN rest
            ELSE IF ~strptime_ok(booking.startDate) THEN strptime_error
            ELSE IF ends_before(end_date_obj, booking) THEN rest
            ELSE IF ~strptime_ok(booking.endDate) THEN strptime_error
            ELSE IF starts_after(start_date_obj, booking) THEN rest
            ELSE Return(TRUE)

\* mutant: the two times change places in the record
new_booking_swapped(car_id, start_date, end_date, pickup_time, dropoff_time) ==
    [car_id |-> car_id, startDate |-> start_date, endDate |-> end_date,
     pickupTime |-> dropoff_time, dropoffTime |-> pickup_time]

new_booking(car_id, start_date, end_date, pickup_time, dropoff_time) ==
    [car_id |-> car_id, startDate |-> start_date, endDate |-> end_date,
     pickupTime |-> pickup_time, dropoffTime |-> dropoff_time]

\* mutant: only the start date is validated
create_booking_check_start_only(cars, bks, car_id, start_date, end_date, pickup_time, dropoff_time) ==
    IF next_car(cars, car_id, 1) = None
    THEN [done |-> TRUE, result |-> ValueError("Car not found."), bookings |-> bks]
    ELSE IF ~strptime_ok(start_date)
    THEN [done |-> TRUE, result |-> strptime_error, bookings |-> bks]
    ELSE LET overlap == any_overlap(bks, 1, car_id, strptime(start_date), strptime(end_date)) IN
         IF overlap.kind = "raise"
         THEN [done |-> TRUE, result |-> overlap, bookings |-> bks]
         ELSE IF overlap.value
         THEN [done |-> TRUE, result |-> Return(FALSE), bookings |-> bks]
         ELSE [done |-> FALSE, result |-> Return(TRUE),
               bookings |-> Append(bks, new_booking(car_id, start_date, end_date,
                                                     pickup_time, dropoff_time))]

\* mutant: the dates are parsed before the car is looked up
create_booking_check_dates_first(cars, bks, car_id, start_date, end_date, pickup_time, dropoff_time) ==
    IF ~strptime_ok(start_date) \/ ~strptime_ok(end_date)
    THEN [done |-> TRUE, result |-> strptime_error, bookings |-> bks]
    ELSE IF next_car(cars, car_id, 1) = None
    THEN [done |-> TRUE, result |-> ValueError("Car not found."), bookings |-> bks]
    ELSE LET overlap == any_overlap(bks, 1, car_id, strptime(start_date), strptime(end_date)) IN
         IF overlap.kind = "raise"
         THEN [done |-> TRUE, result |-> overlap, bookings |-> bks]
         ELSE IF overlap.value
         THEN [done |-> TRUE, result |-> Return(FALSE), bookings |-> bks]
         ELSE [done |-> FALSE, result |-> Return(TRUE),
               bookings |-> Append(bks, new_booking(car_id, start_date, end_date,
                                                     pickup_time, dropoff_time))]

\* create_booking from the car lookup up to bookings.append(new_booking), on the
\* data loaded from the two files: either the call is over (done, with its
\* outcome) or the local list holds the new booking and is about to be saved.
create_booking_check(cars, bks, car_id, start_date, end_date, pickup_time, dropoff_time) ==
    LET car == next_car(cars, car_id, 1) IN
    IF car = None
    THEN [done |-> TRUE, result |-> ValueError("Car not found."), bookings |-> bks]
    ELSE IF ~strptime_ok(start_date) \/ ~strptime_ok(end_date)
    THEN [done |-> TRUE, result |-> strptime_error, bookings |-> bks]
    ELSE LET overlap == any_overlap(bks, 1, car_id, strptime(start_date), strptime(end_date)) IN
         IF overlap.kind = "raise"
         THEN [done |-> TRUE, result |-> overlap, bookings |-> bks]
         ELSE IF overlap.value
         THEN [done |-> TRUE, result |-> Return(FALSE), bookings |-> bks]
         ELSE [done |-> FALSE, result |-> Return(TRUE),
               bookings |-> Append(bks, new_booking(car_id, start_date, end_date,
                                                     pickup_time, dropoff_time))]

\* mutant: the last record of data is added to what the file holds
save_data_append(file, data) ==
    [file EXCEPT !.bookings = Append(@, data.bookings[Len(data.bookings)])]

\* save_data: open(file_path, "w") and json.dump(data): whatever the file held,
\* it now holds data
save_data(file, data) == data

\* the whole call, run without interruption: its outcome and the file it leaves
create_booking(cars_data, bookings_data, car_id, start_date, end_date, pickup_time, dropoff_time) ==
    LET c == create_booking_check(cars_data.cars, bookings_data.bookings, car_id,
                                  start_date, end_date, pickup_time, dropoff_time)
    IN [result |-> c.result,
        file |-> IF c.done THEN bookings_data
                 ELSE save_data(bookings_data, [bookings_data EXCEPT !.bookings = c.bookings])]

\* ------------------------------------------------------------ is_car_available
\* mutant: the second comparison is missing
requested_overlaps_start_only(requested_start, requested_end, booking_start, booking_end) ==
    dt_le(requested_start, booking_end)

\* mutant: strict comparisons, a shared boundary date is no overlap
requested_overlaps_strict(requested_start, requested_end, booking_start, booking_end) ==
    dt_lt(requested_start, booking_end) /\ dt_gt(requested_end, booking_start)

\* requested_start <= booking_end and requested_end >= booking_start
requested_overlaps(requested_start, requested_end, booking_start, booking_end) ==
    dt_le(requested_start, booking_end) /\ dt_ge(requested_end, booking_start)

RECURSIVE scan_bookings(_, _, _, _, _)
scan_bookings(bookings_data, i, car_id, start_date, end_date) ==
    IF i > Len(bookings_data) THEN Return(TRUE)
    ELSE LET booking == bookings_data[i] IN
         IF booking.car_id # car_id
         THEN scan_bookings(bookings_data, i + 1, car_id, start_date, end_date)
         ELSE IF ~strptime_ok(booking.startDate) \/ ~strptime_ok(booking.endDate)
                 \/ ~strptime_ok(start_date) \/ ~strptime_ok(end_date)
         THEN strptime_error
         ELSE IF requested_overlaps(strptime(start_date), strptime(end_date),
                                    strptime(booking.startDate), strptime(booking.endDate))
         THEN Return(FALSE)
         ELSE scan_bookings(bookings_data, i + 1, car_id, start_date, end_date)

\* mutant: the requested dates are parsed before the loop
is_car_available_eager(bookings_file, car_id, start_date, end_date) ==
    IF ~strptime_ok(start_date) \/ ~strptime_ok(end_date) THEN strptime_error
    ELSE scan_bookings(bookings_file.bookings, 1, car_id, start_date, end_date)

is_car_available(bookings_file, car_id, start_date, end_date) ==
    scan_bookings(bookings_file.bookings, 1, car_id, start_date, end_date)

\* ------------------------------------------------------------ check_car_availability
\* `if car_model:` -- None and the empty string are both false
truthy(car_model) == car_model # None /\ car_model[1] # <<>>

\* mutant: the names are compared as written
name_matches_case(car, car_model) == car.name = car_model[1]

\* car["name"].lower() == car_model.lower()
name_matches(car, car_model) == lower(car.name) = lower(car_model[1])

\* the loop of the `if car_model:` branch
RECURSIVE loop_model(_, _, _, _, _, _, _)
loop_model(cars, i, bookings_file, start_date, end_date, car_model, available_cars) ==
    IF i > Len(cars) THEN Return(available_cars)
    ELSE LET car == cars[i] IN
         IF ~name_matches(car, car_model)
         THEN loop_model(cars, i + 1, bookings_file, start_date, end_date, car_model,
                         available_cars)
         ELSE LET a == is_car_available(bookings_file, car.id, start_date, end_date) IN
              IF a.kind = "raise" THEN a
              ELSE loop_model(cars, i + 1, bookings_file, start_date, end_date, car_model,
                              IF a.value THEN Append(available_cars, car)
                              ELSE available_cars)

\* the loop of the `else:` branch
RECURSIVE loop_all(_, _, _, _, _, _)
loop_all(cars, i, bookings_file, start_date, end_date, available_cars) ==
    IF i > Len(cars) THEN Return(available_cars)
    ELSE LET car == cars[i]
             a == is_car_available(bookings_file, car.id, start_date, end_date)
         IN IF a.kind = "raise" THEN a
            ELSE loop_all(cars, i + 1, bookings_file, start_date, end_date,
                          IF a.value THEN Append(available_cars, car) ELSE available_cars)

check_car_availability(cars_data, bookings_file, start_date, end_date, car_model) ==
    IF truthy(car_model)
    THEN loop_model(cars_data.cars, 1, bookings_file, start_date, end_date, car_model, <<>>)
    ELSE loop_all(cars_data.cars, 1, bookings_file, start_date, end_date, <<>>)

\* ------------------------------------------------------------ list_cars
list_cars(cars_data) == Return(cars_data.cars)

\* ------------------------------------------------------------ routes
\* get_all_cars: {"cars": cars}
get_all_cars(cars_data) ==
    LET r == list_cars(cars_data) IN
    IF r.kind = "raise" THEN HTTPException(500, r.msg) ELSE Return([cars |-> r.value])

\* mutant: an empty list is answered like any other list
check_availability_no_404(available_cars) ==
    IF available_cars.kind = "raise" THEN available_cars
    ELSE Return([available_cars |-> available_cars.value])

\* check_availability: 404 for an empty list, else {"available_cars": [...]};
\* an exception of the service is not caught
check_availability(available_cars) ==
    IF available_cars.kind = "raise" THEN available_cars
    ELSE IF available_cars.value = <<>>
    THEN HTTPException(404, "No available cars found for the given dates and model.")
    ELSE Return([available_cars |-> available_cars.value])

\* mutant: the except clause answers every exception with the conflict response
post_booking_catch_all(success) ==
    IF success.kind = "return" /\ success.value
    THEN Return([message |-> "Booking successfully created!"])
    ELSE HTTPException(400, "Car already booked for the given time range.")

\* post_booking: the try block and its `except Exception as e: raise e`
post_booking(success) ==
    IF success.kind = "raise" THEN success
    ELSE IF success.value THEN Return([message |-> "Booking successfully created!"])
    ELSE HTTPException(400, "Car already booked for the given time range.")

\* ------------------------------------------------------------ requests
CarIds == {1, 2, 99}                  \* 99 is in no catalog

Nov30 == <<2024, 11, 30>>
Dec01 == <<2024, 12, 1>>
Nov31 == <<2024, 11, 31>>             \* malformed: November has 30 days
Dates == {Nov30, Dec01, Nov31}

Times == { <<"08:00", "18:00">>, <<"09:30", "17:00">> }   \* (pickup, dropoff)

Models == { None, Some(SEAT_Ibiza), Some(lower(SEAT_Ibiza)),
            Some(<<"S", "E", "A", "T">>), Some(<<>>) }

Workers == {"w1", "w2"}
ConcDates == {Nov30, Dec01}
ConcTime == <<"08:00", "18:00">>

NoRequest == [car_id |-> 0, start_date |-> <<>>, end_date |-> <<>>,
              pickup_time |-> "", dropoff_time |-> ""]
NoOutcome == [kind |-> "none"]

NoLast == [op |-> "none", args |-> NoRequest, result |-> NoOutcome, response |-> NoOutcome]

\* ------------------------------------------------------------ initial state
Init ==
    /\ cars_json = CarsFile
    /\ bookings_json = [bookings |-> <<>>]
    /\ last = NoLast
    /\ pc = [w \in Workers |-> "idle"]
    /\ req = [w \in Workers |-> NoRequest]
    /\ bookings = [w \in Workers |-> <<>>]
    /\ ret = [w \in Workers |-> NoOutcome]
    /\ calls = [w \in Workers |-> 0]

conc_vars == <<pc, req, bookings, ret, calls>>

\* ------------------------------------------------------------ Spec: one request at a time
\* POST /booking/
PostBooking ==
    \E car_id \in CarIds, start_date \in Dates, end_date \in Dates, t \in Times :
        LET c == create_booking(cars_json, bookings_json, car_id, start_date, end_date,
                                t[1], t[2])
        IN /\ last.op = "none"
           /\ Len(c.file.bookings) <= MaxBookings
           /\ bookings_json' = c.file
           /\ last' = [op |-> "post_booking",
                       args |-> [car_id |-> car_id, start_date |-> start_date,
                                 end_date |-> end_date, pickup_time |-> t[1],
                                 dropoff_time |-> t[2]],
                       result |-> c.result,
                       response |-> post_booking(c.result)]
           /\ UNCHANGED <<cars_json, conc_vars>>

\* mutant: the availability check leaves an emptied booking file behind
CheckAvailability_truncating ==
    \E start_date \in Dates, end_date \in Dates, car_model \in Models :
        /\ last.op = "none"
        /\ last' = [op |-> "check_availability",
                    args |-> [start_date |-> start_date, end_date |-> end_date,
                              car_model |-> car_model],
                    result |-> check_car_availability(cars_json, bookings_json, start_date,
                                                      end_date, car_model),
                    response |-> check_availability(
                                     check_car_availability(cars_json, bookings_json,
                                                            start_date, end_date, car_model))]
        /\ bookings_json' = [bookings |-> <<>>]
        /\ UNCHANGED <<cars_json, conc_vars>>

\* GET /check_car_availability
CheckAvailability ==
    \E start_date \in Dates, end_date \in Dates, car_model \in Models :
        LET r == check_car_availability(cars_json, bookings_json, start_date, end_date,
                                        car_model)
        IN /\ last.op = "none"
           /\ last' = [op |-> "check_availability",
                       args |-> [start_date |-> start_date, end_date |-> end_date,
                                 car_model |-> car_model],
                       result |-> r,
                       response |-> check_availability(r)]
           /\ UNCHANGED <<cars_json, bookings_json, conc_vars>>

\* is_car_available called on its own
IsCarAvailable ==
    \E car_id \in CarIds, start_date \in Dates, end_date \in Dates :
        /\ last.op = "none"
        /\ last' = [op |-> "is_car_available",
                    args |-> [car_id |-> car_id, start_date |-> start_date,
                              end_date |-> end_date],
                    result |-> is_car_available(bookings_json, car_id, start_date, end_date),
                    response |-> NoOutcome]
        /\ UNCHANGED <<cars_json, bookings_json, conc_vars>>

\* GET /cars/
GetAllCars ==
    /\ last.op = "none"
    /\ last' = [op |-> "get_all_cars", args |-> NoRequest,
                result |-> list_cars(cars_json), response |-> get_all_cars(cars_json)]
    /\ UNCHANGED <<cars_json, bookings_json, conc_vars>>

\* the response goes out to the client; the application takes the next request
Respond ==
    /\ last.op # "none"
    /\ last' = NoLast
    /\ UNCHANGED <<cars_json, bookings_json, conc_vars>>

Next == PostBooking \/ CheckAvailability \/ IsCarAvailable \/ GetAllCars \/ Respond

Spec == Init /\ [][Next]_vars

\* ------------------------------------------------------------ SpecConc: interleaved workers
\* a worker takes a POST /booking/ request and create_booking loads the two files
Load(w) ==
    \E car_id \in CarIds, start_date \in ConcDates, end_date \in ConcDates :
        /\ pc[w] = "idle"
        /\ calls[w] < MaxCalls
        /\ Len(bookings_json.bookings) < MaxBookings
        /\ calls' = [calls EXCEPT ![w] = @ + 1]
        /\ req' = [req EXCEPT ![w] = [car_id |-> car_id, start_date |-> start_date,
                                      end_date |-> end_date, pickup_time |-> ConcTime[1],
                                      dropoff_time |-> ConcTime[2]]]
        /\ bookings' = [bookings EXCEPT ![w] = bookings_json.bookings]
        /\ ret' = [ret EXCEPT ![w] = NoOutcome]
        /\ pc' = [pc EXCEPT ![w] = "check"]
        /\ UNCHANGED <<cars_json, bookings_json, last>>

\* car lookup, date parsing and overlap check on the loaded list; the call ends
\* here with an error or False, or goes on to save the extended list
Check(w) ==
    /\ pc[w] = "check"
    /\ LET r == req[w]
           c == create_booking_check(cars_json.cars, bookings[w], r.car_id, r.start_date,
                                     r.end_date, r.pickup_time, r.dropoff_time)
       IN /\ bookings' = [bookings EXCEPT ![w] = c.bookings]
          /\ ret' = [ret EXCEPT ![w] = IF c.done THEN c.result ELSE NoOutcome]
          /\ pc' = [pc EXCEPT ![w] = IF c.done THEN "idle" ELSE "save"]
    /\ UNCHANGED <<cars_json, bookings_json, last, req, calls>>

\* save_data writes the worker's list over the file; the call returns True
Save(w) ==
    /\ pc[w] = "save"
    /\ bookings_json' = save_data(bookings_json, [bookings |-> bookings[w]])
    /\ ret' = [ret EXCEPT ![w] = Return(TRUE)]
    /\ pc' = [pc EXCEPT ![w] = "idle"]
    /\ UNCHANGED <<cars_json, last, req, bookings, calls>>

NextConc == \E w \in Workers : Load(w) \/ Check(w) \/ Save(w)

SpecConc == Init /\ [][NextConc]_vars

\* ------------------------------------------------------------ SpecSym: the two overlap tests
\* Two date ranges A and B are drawn; each is tried as the request against a
\* booking file that holds the other as the only booking of car 1.
Dec02 == <<2024, 12, 2>>
SymDates == {Nov30, Dec01, Dec02}

InitSym ==
    /\ cars_json = CarsFile
    /\ bookings_json = [bookings |-> <<>>]
    /\ last \in {[op |-> "overlap", args |-> [a_start |-> a1, a_end |-> a2,
                                              b_start |-> b1, b_end |-> b2],
                   result |-> NoOutcome, response |-> NoOutcome] :
                      a1 \in SymDates, a2 \in SymDates, b1 \in SymDates, b2 \in SymDates}
    /\ pc = [w \in Workers |-> "idle"]
    /\ req = [w \in Workers |-> NoRequest]
    /\ bookings = [w \in Workers |-> <<>>]
    /\ ret = [w \in Workers |-> NoOutcome]
    /\ calls = [w \in Workers |-> 0]

\* the booking file whose only record is car 1 booked from start_date to end_date
FileWith(start_date, end_date) ==
    [bookings |-> <<new_booking(1, start_date, end_date, ConcTime[1], ConcTime[2])>>]

\* is_car_available and create_booking, each called with A against stored B and
\* with B against stored A
ApplyOverlap ==
    /\ last.op = "overlap"
    /\ LET a == last.args IN
       last' = [last EXCEPT
                  !.op = "overlap_done",
                  !.result =
                     [available_ab |-> is_car_available(FileWith(a.b_start, a.b_end), 1,
                                                        a.a_start, a.a_end),
                      available_ba |-> is_car_available(FileWith(a.a_start, a.a_end), 1,
                                                        a.b_start, a.b_end),
                      created_ab |-> create_booking(cars_json, FileWith(a.b_start, a.b_end), 1,
                                                    a.a_start, a.a_end,
                                                    ConcTime[1], ConcTime[2]).result,
                      created_ba |-> create_booking(cars_json, FileWith(a.a_start, a.a_end), 1,
                                                    a.b_start, a.b_end,
                                                    ConcTime[1], ConcTime[2]).result]]
    /\ UNCHANGED <<cars_json, bookings_json, conc_vars>>

NextSym == ApplyOverlap

SpecSym == InitSym /\ [][NextSym]_vars

\* ------------------------------------------------------------ vocabulary of the claims
\* day number of a well-formed date string (months counted as 31 days)
Ord(d) == (d[1] * 12 + d[2]) * 31 + d[3]

WellFormed(d) == strptime_ok(d)

\* inclusive overlap of two date ranges given as strings
RangesOverlap(s1, e1, s2, e2) == Ord(s1) <= Ord(e2) /\ Ord(e1) >= Ord(s2)

Stored == bookings_json.bookings

CatalogIds == {cars_json.cars[i].id : i \in DOMAIN cars_json.cars}

\* some stored booking of the car overlaps the requested range
Conflict(store, car_id, start_date, end_date) ==
    \E i \in DOMAIN store :
        /\ store[i].car_id = car_id
        /\ RangesOverlap(start_date, end_date, store[i].startDate, store[i].endDate)

DoubleBooked(store) ==
    \E i, j \in DOMAIN store :
        /\ i # j
        /\ store[i].car_id = store[j].car_id
        /\ RangesOverlap(store[i].startDate, store[i].endDate,
                         store[j].startDate, store[j].endDate)

\* the request just answered was a create_booking call for a catalog car with
\* well-formed dates
BookedKnownCar(l) ==
    /\ l.op = "post_booking"
    /\ l.args.car_id \in CatalogIds
    /\ WellFormed(l.args.start_date)
    /\ WellFormed(l.args.end_date)

\* ------------------------------------------------------------ C1
\* C1: with requests served one at a time, the store never holds two bookings
\* of one car whose date ranges overlap (inclusive on both ends).
C1_NoOverlappingBookings == ~DoubleBooked(Stored)

\* a second booking of a car has just been accepted next to an earlier one
C1_Witness ==
    /\ last.op = "post_booking"
    /\ last.result = Return(TRUE)
    /\ Len(Stored) = 2
    /\ Stored[1].car_id = Stored[2].car_id

\* ------------------------------------------------------------ C3
\* C3: for a catalog car and well-formed dates, when a stored booking of that
\* car overlaps the requested range, create_booking returns False and the
\* booking file is left exactly as it was.
C3_ConflictNoWrite ==
    [][ (BookedKnownCar(last')
         /\ Conflict(Stored, last'.args.car_id, last'.args.start_date, last'.args.end_date))
        => (last'.result = Return(FALSE) /\ bookings_json' = bookings_json) ]_vars

\* a request was refused because of a stored booking it only touches at a boundary
C3_Witness ==
    /\ BookedKnownCar(last)
    /\ last.result = Return(FALSE)
    /\ \E i \in DOMAIN Stored :
          /\ Stored[i].car_id = last.args.car_id
          /\ Stored[i].endDate = last.args.start_date
          /\ Ord(Stored[i].startDate) < Ord(last.args.start_date)

\* ------------------------------------------------------------ C4
\* C4: for a catalog car and well-formed dates, when no stored booking of that
\* car overlaps the requested range, create_booking returns True and the file
\* is the old list with one record appended, carrying the five arguments.
C4_AppendOnSuccess ==
    [][ (BookedKnownCar(last')
         /\ ~Conflict(Stored, last'.args.car_id, last'.args.start_date, last'.args.end_date))
        => /\ last'.result = Return(TRUE)
           /\ bookings_json'.bookings =
                  Append(Stored, [car_id |-> last'.args.car_id,
                                  startDate |-> last'.args.start_date,
                                  endDate |-> last'.args.end_date,
                                  pickupTime |-> last'.args.pickup_time,
                                  dropoffTime |-> last'.args.dropoff_time]) ]_vars

\* a booking was appended behind an earlier booking of the other car
C4_Witness ==
    /\ BookedKnownCar(last)
    /\ last.result = Return(TRUE)
    /\ Len(Stored) = 2
    /\ Stored[1].car_id # Stored[2].car_id
    /\ Stored[2].pickupTime = last.args.pickup_time
    /\ Stored[2].pickupTime # Stored[1].pickupTime

\* ------------------------------------------------------------ C5
\* C5: a car id that is in no catalog entry makes create_booking raise
\* "Car not found." and leaves the booking file unchanged, whatever the dates.
C5_UnknownCar ==
    [][ (last'.op = "post_booking" /\ last'.args.car_id \notin CatalogIds)
        => (last'.result = ValueError("Car not found.") /\ bookings_json' = bookings_json) ]_vars

\* an unknown car was requested with a malformed date while the file held bookings
C5_Witness ==
    /\ last.op = "post_booking"
    /\ last.args.car_id = 99
    /\ ~WellFormed(last.args.start_date)
    /\ last.result = ValueError("Car not found.")
    /\ Len(Stored) > 0

\* ------------------------------------------------------------ C2
Front(q) == SubSeq(q, 1, Len(q) - 1)

\* both workers were asked for the same car and overlapping ranges, both loaded
\* the same list, both saved and both returned True
BothWroteFromSameSnapshot ==
    /\ \A w \in Workers : pc[w] = "idle" /\ ret[w] = Return(TRUE)
    /\ req["w1"].car_id = req["w2"].car_id
    /\ RangesOverlap(req["w1"].start_date, req["w1"].end_date,
                     req["w2"].start_date, req["w2"].end_date)
    /\ Front(bookings["w1"]) = Front(bookings["w2"])

C6_AvailableIffNoConflict ==
    (last.op = "is_car_available"
     /\ WellFormed(last.args.start_date) /\ WellFormed(last.args.end_date))
    => last.result = Return(~Conflict(Stored, last.args.car_id, last.args.start_date,
                                      last.args.end_date))

\* a range that shares only its first day with a booking of the car is refused
\* although the other car is free
C6_Witness ==
    /\ last.op = "is_car_available"
    /\ last.result = Return(FALSE)
    /\ Ord(last.args.start_date) < Ord(last.args.end_date)
    /\ \E i \in DOMAIN Stored :
          /\ Stored[i].car_id = last.args.car_id
          /\ Stored[i].endDate = last.args.start_date
          /\ Stored[i].startDate = last.args.start_date
    /\ \A i \in DOMAIN Stored : Stored[i].car_id = last.args.car_id

\* ------------------------------------------------------------ C7
\* the bookings of the file for this car and exactly this range
Same(store, car_id, start_date, end_date) ==
    {i \in DOMAIN store : /\ store[i].car_id = car_id
                          /\ store[i].startDate = start_date
                          /\ store[i].endDate = end_date}

\* C7 as stated: for any range, after an accepted booking the file holds
\* exactly one booking for that car and range.
C7_Original ==
    (last.op = "post_booking" /\ last.result = Return(TRUE))
    => Cardinality(Same(Stored, last.args.car_id, last.args.start_date,
                        last.args.end_date)) = 1

\* C7 amended: for a range with start <= end, once the file holds a booking for
\* a car and that range, create_booking and is_car_available for the same car
\* and range return False, and the file holds exactly one such booking.
C7_SelfConflict ==
    [][ /\ \A i \in DOMAIN Stored :
              Ord(Stored[i].startDate) <= Ord(Stored[i].endDate)
              => /\ (last'.op \in {"post_booking", "is_car_available"}
                     /\ last'.args.car_id = Stored[i].car_id
                     /\ last'.args.start_date = Stored[i].startDate
                     /\ last'.args.end_date = Stored[i].endDate)
                    => last'.result = Return(FALSE)
                 /\ Cardinality(Same(bookings_json'.bookings, Stored[i].car_id,
                                     Stored[i].startDate, Stored[i].endDate)) = 1
        /\ (last'.op = "post_booking" /\ last'.result = Return(TRUE)
            /\ Ord(last'.args.start_date) <= Ord(last'.args.end_date))
           => Cardinality(Same(bookings_json'.bookings, last'.args.car_id,
                               last'.args.start_date, last'.args.end_date)) = 1 ]_vars

\* the repeated request for a two-day range was refused
C7_Witness ==
    /\ last.op = "post_booking"
    /\ last.result = Return(FALSE)
    /\ Ord(last.args.start_date) < Ord(last.args.end_date)
    /\ Cardinality(Same(Stored, last.args.car_id, last.args.start_date,
                        last.args.end_date)) = 1

\* ------------------------------------------------------------ C8
\* C8: every step leaves the booking list as it was or extends it, also when
\* requests are served concurrently.
C8_AppendOnly ==
    [][ /\ Len(Stored) <= Len(bookings_json'.bookings)
        /\ SubSeq(bookings_json'.bookings, 1, Len(Stored)) = Stored ]_vars

\* ------------------------------------------------------------ C9
EqualIgnoringCase(a, b) == lower(a) = lower(b)

\* the catalog cars, in catalog order, that pass the filter (when there is one)
\* and that is_car_available reports free
AvailableCars(filtered, car_model, start_date, end_date) ==
    SelectSeq(cars_json.cars,
              LAMBDA car :
                  /\ filtered => EqualIgnoringCase(car.name, car_model[1])
                  /\ is_car_available(bookings_json, car.id, start_date, end_date).kind
                         = "return"
                  /\ is_car_available(bookings_json, car.id, start_date, end_date).value)

\* C9 as stated: a filter counts as supplied whenever it is not None.
C9_Original ==
    (last.op = "check_availability" /\ last.result.kind = "return")
    => last.result.value = AvailableCars(last.args.car_model # None, last.args.car_model,
                                         last.args.start_date, last.args.end_date)

\* C9 amended: check_car_availability returns, in catalog order, exactly the
\* cars that is_car_available reports free and, when a non-empty model filter
\* is given, whose name equals it ignoring case; an empty-string filter is
\* treated like no filter; for well-formed dates it always returns a list,
\* possibly empty.
C9_FilteredAvailableCars ==
    last.op = "check_availability"
    => /\ last.result.kind = "return"
          => last.result.value =
                 AvailableCars(last.args.car_model # None /\ last.args.car_model[1] # <<>>,
                               last.args.car_model, last.args.start_date,
                               last.args.end_date)
       /\ (WellFormed(last.args.start_date) /\ WellFormed(last.args.end_date))
          => last.result.kind = "return"

\* a lower-case filter found its car free while the other car was booked
C9_Witness ==
    /\ last.op = "check_availability"
    /\ last.args.car_model = Some(lower(SEAT_Ibiza))
    /\ last.result = Return(<<cars_json.cars[1]>>)
    /\ \E i \in DOMAIN Stored :
          /\ Stored[i].car_id = 2
          /\ Stored[i].startDate = last.args.start_date

\* ------------------------------------------------------------ C10
ConflictResponse == HTTPException(400, "Car already booked for the given time range.")
SuccessResponse == Return([message |-> "Booking successfully created!"])

C11_MalformedDate ==
    [][ (last'.op = "post_booking"
         /\ last'.args.car_id \in CatalogIds
         /\ (~WellFormed(last'.args.start_date) \/ ~WellFormed(last'.args.end_date)))
        => (last'.result = strptime_error /\ bookings_json' = bookings_json) ]_vars

\* only the end date was malformed, and the car already had a booking
C11_Witness ==
    /\ last.op = "post_booking"
    /\ last.args.car_id \in CatalogIds
    /\ WellFormed(last.args.start_date)
    /\ ~WellFormed(last.args.end_date)
    /\ last.result = strptime_error
    /\ \E i \in DOMAIN Stored : Stored[i].car_id = last.args.car_id

\* ------------------------------------------------------------ C12
ReadOps == {"is_car_available", "check_availability", "get_all_cars"}

\* C12: is_car_available, check_car_availability and list_cars leave the booking
\* file and the catalog unchanged, so check_car_availability called again with
\* the same arguments on the files it left returns the same result; the file
\* changes only in a create_booking call that returns True.
C12_ReadsHaveNoEffect ==
    [][ /\ last'.op \in ReadOps
           => (bookings_json' = bookings_json /\ cars_json' = cars_json)
        /\ last'.op = "check_availability"
           => last'.result = check_car_availability(cars_json', bookings_json',
                                                    last'.args.start_date,
                                                    last'.args.end_date,
                                                    last'.args.car_model)
        /\ bookings_json' # bookings_json
           => (last'.op = "post_booking" /\ last'.result = Return(TRUE)) ]_vars

\* an availability check on a file with a booking found one car taken
C12_Witness ==
    /\ last.op = "check_availability"
    /\ last.args.car_model = None
    /\ last.result.kind = "return"
    /\ Len(last.result.value) = 1
    /\ Len(Stored) = 1

\* ------------------------------------------------------------ C13
NotFoundResponse ==
    HTTPException(404, "No available cars found for the given dates and model.")

\* C13: check_availability answers 404 "No available cars found ..." exactly
\* when check_car_availability returned an empty list, and answers a non-empty
\* list with that list under "available_cars".
C13_EmptyIsNotFound ==
    last.op = "check_availability"
    => /\ (last.response = NotFoundResponse)
          <=> (last.result.kind = "return" /\ last.result.value = <<>>)
       /\ (last.result.kind = "return" /\ last.result.value # <<>>)
          => last.response = Return([available_cars |-> last.result.value])

\* with no model filter, both cars were booked for the requested day
C13_Witness ==
    /\ last.op = "check_availability"
    /\ last.args.car_model = None
    /\ last.result = Return(<<>>)
    /\ last.response.exc = "HTTPException"
    /\ last.response.status_code = 404

\* ------------------------------------------------------------ C14
\* C14: every stored booking names a car of the catalog.
C14_BookedCarsExist == \A i \in DOMAIN Stored : Stored[i].car_id \in CatalogIds

\* a request for a car outside the catalog was turned away from a file that
\* holds bookings of both catalog cars
C14_Witness ==
    /\ last.op = "post_booking"
    /\ last.args.car_id \notin CatalogIds
    /\ WellFormed(last.args.start_date) /\ WellFormed(last.args.end_date)
    /\ last.result.kind = "raise"
    /\ {Stored[i].car_id : i \in DOMAIN Stored} = CatalogIds

\* ------------------------------------------------------------ C15
\* C15 as stated: for a catalog car, create_booking ends with True or False
\* whatever the other arguments are.
C15_Original ==
    (last.op = "post_booking" /\ last.args.car_id \in CatalogIds)
    => last.result \in {Return(TRUE), Return(FALSE)}

\* C15 amended: create_booking raises only for a car id outside the catalog or
\* for a malformed start or end date; for a catalog car and well-formed dates
\* it ends with True or False.
C15_ErrorsOnlyForCarOrDate ==
    last.op = "post_booking"
    => /\ (last.args.car_id \in CatalogIds
           /\ WellFormed(last.args.start_date) /\ WellFormed(last.args.end_date))
          => last.result \in {Return(TRUE), Return(FALSE)}
       /\ last.result.kind = "raise"
          => \/ last.args.car_id \notin CatalogIds
             \/ ~WellFormed(last.args.start_date)
             \/ ~WellFormed(last.args.end_date)

\* the second catalog car was refused on a full file: a boolean outcome
C15_Witness ==
    /\ last.op = "post_booking"
    /\ last.args.car_id = 2
    /\ WellFormed(last.args.start_date) /\ WellFormed(last.args.end_date)
    /\ last.result = Return(FALSE)
    /\ Len(Stored) = MaxBookings

\* ------------------------------------------------------------ C16
\* C16: for a catalog car and well-formed dates, ordered or inverted,
\* create_booking returns True exactly when is_car_available returns True for
\* the same car and range on the file as it was before the call.
C16_SamePredicate ==
    [][ BookedKnownCar(last')
        => ((last'.result = Return(TRUE))
            <=> (is_car_available(bookings_json, last'.args.car_id, last'.args.start_date,
                                  last'.args.end_date) = Return(TRUE))) ]_vars

\* an inverted range was refused because a booking of the car spans it
C16_Witness ==
    /\ BookedKnownCar(last)
    /\ Ord(last.args.start_date) > Ord(last.args.end_date)
    /\ last.result = Return(FALSE)
    /\ is_car_available(bookings_json, last.args.car_id, last.args.start_date,
                        last.args.end_date) = Return(FALSE)

\* ------------------------------------------------------------ C17
\* the booking lists that differ from store in pickup and dropoff times only
Retimed(store) ==
    {[i \in DOMAIN store |-> [store[i] EXCEPT !.pickupTime = f[i][1],
                                              !.dropoffTime = f[i][2]]] :
        f \in [DOMAIN store -> Times]}

\* C17: the outcome of create_booking does not depend on the pickup and dropoff
\* times of the request, and the outcomes of create_booking, is_car_available
\* and check_car_availability do not depend on the times of the stored bookings.
C17_TimesDoNotMatter ==
    [][ /\ last'.op = "post_booking"
           => \A t \in Times, other \in Retimed(Stored) :
                 create_booking(cars_json, [bookings |-> other], last'.args.car_id,
                                last'.args.start_date, last'.args.end_date,
                                t[1], t[2]).result = last'.result
        /\ last'.op = "is_car_available"
           => \A other \in Retimed(Stored) :
                 is_car_available([bookings |-> other], last'.args.car_id,
                                  last'.args.start_date, last'.args.end_date) = last'.result
        /\ last'.op = "check_availability"
           => \A other \in Retimed(Stored) :
                 check_car_availability(cars_json, [bookings |-> other],
                                        last'.args.start_date, last'.args.end_date,
                                        last'.args.car_model) = last'.result ]_vars

\* a request was refused by a stored booking whose times differ from its own
C17_Witness ==
    /\ BookedKnownCar(last)
    /\ last.result = Return(FALSE)
    /\ \E i \in DOMAIN Stored :
          /\ Stored[i].car_id = last.args.car_id
          /\ Stored[i].pickupTime # last.args.pickup_time
          /\ Stored[i].startDate = last.args.end_date

\* ------------------------------------------------------------ C18
\* C18: for two date ranges A and B, ordered or not, is_car_available gives the
\* same answer for A requested against B stored as for B requested against A
\* stored, and so does create_booking.
C18_OverlapSymmetric ==
    last.op = "overlap_done"
    => /\ last.result.available_ab = last.result.available_ba
       /\ last.result.created_ab = last.result.created_ba

\* an inverted range A and an ordered range B that overlap
C18_Witness ==
    /\ last.op = "overlap_done"
    /\ Ord(last.args.a_start) > Ord(last.args.a_end)
    /\ Ord(last.args.b_start) < Ord(last.args.b_end)
    /\ last.result.available_ab = Return(FALSE)
    /\ last.result.created_ba = Return(FALSE)

\* ------------------------------------------------------------ C19
HasBooking(store, car_id) == \E i \in DOMAIN store : store[i].car_id = car_id

\* the catalog cars that pass the model filter, when there is one
FilteredCars(car_model) ==
    SelectSeq(cars_json.cars,
              LAMBDA car : (car_model # None /\ car_model[1] # <<>>)
                               => EqualIgnoringCase(car.name, car_model[1]))

\* C19: is_car_available returns True without any error when the file holds no
\* booking of the car, malformed dates included, and raises for a malformed
\* date exactly when the file holds a booking of the car; on an empty file
\* check_car_availability returns every (filtered) catalog car, malformed dates
\* included.
C19_DatesParsedInsideLoop ==
    /\ last.op = "is_car_available"
       => /\ ~HasBooking(Stored, last.args.car_id) => last.result = Return(TRUE)
          /\ (last.result.kind = "raise")
             <=> /\ HasBooking(Stored, last.args.car_id)
                 /\ (~WellFormed(last.args.start_date) \/ ~WellFormed(last.args.end_date))
    /\ (last.op = "check_availability" /\ Stored = <<>>)
       => last.result = Return(FilteredCars(last.args.car_model))

\* malformed dates passed for a car without bookings while the other car was booked
C19_Witness ==
    /\ last.op = "is_car_available"
    /\ ~WellFormed(last.args.start_date)
    /\ ~WellFormed(last.args.end_date)
    /\ last.result = Return(TRUE)
    /\ last.args.car_id \in CatalogIds
    /\ Len(Stored) > 0

====
